---- MODULE Spec2Model ----
(***************************************************************************)
(* Model of vspreview's scening toolbar                                    *)
(* (src/vspreview/toolbars/scening/toolbar.py): the import_file tasks, the *)
(* format importers and the template exporters.                            *)
(*                                                                         *)
(* Text is a sequence of one-character strings, so that formatting and     *)
(* parsing are computed and not assumed.                                   *)
(***************************************************************************)
EXTENDS Integers, Sequences, FiniteSets, TLC

\* ------------------------------------------------------------------ bounds
\* last valid frame of the current output
MaxFrame == 12
\* number of import_file tasks the executor runs
NumTasks == 2
\* lists the user adds by hand, over a whole run
MaxLists == 1
\* lines of an enumerated text file
MaxLines == 2

\* ------------------------------------------------------------------ text
Digits == <<"0", "1", "2", "3", "4", "5", "6", "7", "8", "9">>

IsDigit(c) == \E i \in 1..10 : Digits[i] = c

DigitVal(c) == (CHOOSE i \in 1..10 : Digits[i] = c) - 1

IsSpace(c) == c = " " \/ c = "\n"

\* str(int): the decimal digits of a non-negative integer
RECURSIVE IntToStr(_)
IntToStr(n) ==
    IF n < 10 THEN <<Digits[n + 1]>>
    ELSE IntToStr(n \div 10) \o <<Digits[(n % 10) + 1]>>

\* value of a run of digits
RECURSIVE DigitsToInt(_)
DigitsToInt(s) ==
    IF s = <<>> THEN 0
    ELSE 10 * DigitsToInt(SubSeq(s, 1, Len(s) - 1)) + DigitVal(s[Len(s)])

AllDigits(s) == s # <<>> /\ \A i \in 1..Len(s) : IsDigit(s[i])

\* int(token): Python accepts an optional sign followed by digits
IntOk(tok) ==
    \/ AllDigits(tok)
    \/ Len(tok) > 1 /\ tok[1] \in {"-", "+"} /\ AllDigits(Tail(tok))

IntVal(tok) ==
    IF AllDigits(tok) THEN DigitsToInt(tok)
    ELSE IF tok[1] = "-" THEN 0 - DigitsToInt(Tail(tok))
    ELSE DigitsToInt(Tail(tok))

\* str.splitlines(): lines end at "\n"; no empty last line
RECURSIVE SplitLinesFrom(_, _, _)
SplitLinesFrom(text, i, cur) ==
    IF i > Len(text) THEN (IF cur = <<>> THEN <<>> ELSE <<cur>>)
    ELSE IF text[i] = "\n" THEN <<cur>> \o SplitLinesFrom(text, i + 1, <<>>)
    ELSE SplitLinesFrom(text, i + 1, Append(cur, text[i]))

SplitLines(text) == SplitLinesFrom(text, 1, <<>>)

\* str.split(): maximal runs of non-whitespace
RECURSIVE SplitFrom(_, _, _)
SplitFrom(line, i, cur) ==
    IF i > Len(line) THEN (IF cur = <<>> THEN <<>> ELSE <<cur>>)
    ELSE IF IsSpace(line[i])
         THEN (IF cur = <<>> THEN <<>> ELSE <<cur>>) \o SplitFrom(line, i + 1, <<>>)
    ELSE SplitFrom(line, i + 1, Append(cur, line[i]))

Split(line) == SplitFrom(line, 1, <<>>)

\* the text of a file whose lines are given, each ended by "\n"
RECURSIVE JoinLines(_)
JoinLines(lines) ==
    IF lines = <<>> THEN <<>>
    ELSE Head(lines) \o <<"\n">> \o JoinLines(Tail(lines))

\* ------------------------------------------------------------------ scenes
Scene(start, end, label) == [start |-> start, end |-> end, label |-> label]

\* an absent frame
None == -1

\* Frame(int) takes non-negative integers only, and raises ValueError otherwise
FrameOk(n) == n >= 0

\* range validation of SceningList.add: start and end within [0, max_frame]
\* of the output, and end not before start
InRange(start, end) ==
    /\ 0 <= start /\ start <= MaxFrame
    /\ 0 <= end /\ end <= MaxFrame
    /\ start <= end

HasScene(scenes, start, end) ==
    \E i \in 1..Len(scenes) : scenes[i].start = start /\ scenes[i].end = end

\* SceningList.add on a valid scene: inserted unless (start, end) is present
ListAdd(scenes, start, end, label) ==
    IF HasScene(scenes, start, end) THEN scenes
    ELSE Append(scenes, Scene(start, end, label))

\* the running state of one importer call: the list's scenes, the calls of
\* scening_list.add made so far, the importer's out_of_range_count, the
\* exception that ended it and whether it logged its own warning
ImportInit(scenes) ==
    [scenes |-> scenes, attempts |-> <<>>, count |-> 0, exc |-> "none",
     warned |-> FALSE]

\* try: scening_list.add(...)  except ValueError: out_of_range_count += 1
TryAdd(st, start, end, label) ==
    IF InRange(start, end)
    THEN [st EXCEPT !.scenes = ListAdd(@, start, end, label),
                    !.attempts = Append(@, Scene(start, end, label))]
    ELSE [st EXCEPT !.count = @ + 1,
                    !.attempts = Append(@, Scene(start, end, label))]

Dropped(st) == [st EXCEPT !.count = @ + 1]

Raise(st, e) == [st EXCEPT !.exc = e]

\* ------------------------------------------------------------------ import_simple
\* one line of import_simple
SimpleLine(st, line) ==
    LET toks == Split(line) IN
    IF \E i \in 1..Len(toks) : ~IntOk(toks[i]) THEN Dropped(st)
    ELSE IF Len(toks) < 2 THEN Raise(st, "IndexError")
    ELSE IF ~FrameOk(IntVal(toks[1])) \/ ~FrameOk(IntVal(toks[2])) THEN Dropped(st)
    ELSE TryAdd(st, IntVal(toks[1]), IntVal(toks[2]), <<>>)

RECURSIVE SimpleLoop(_, _, _)
SimpleLoop(st, lines, i) ==
    IF i > Len(lines) \/ st.exc # "none" THEN st
    ELSE SimpleLoop(SimpleLine(st, lines[i]), lines, i + 1)

import_simple(text, scenes) == SimpleLoop(ImportInit(scenes), SplitLines(text), 1)

\* ------------------------------------------------------------------ import_qp
\* the pattern (\d+)\sI|K tried at position p: the end of the match and
\* group 1, or end 0 when neither alternative matches at p
RECURSIVE DigitRunEnd(_, _)
DigitRunEnd(text, p) ==
    IF p <= Len(text) /\ IsDigit(text[p]) THEN DigitRunEnd(text, p + 1) ELSE p

QpMatchAt(text, p) ==
    LET e == DigitRunEnd(text, p) IN
    IF e > p /\ e + 1 <= Len(text) /\ IsSpace(text[e]) /\ text[e + 1] = "I"
    THEN [end |-> e + 2, group |-> SubSeq(text, p, e - 1)]
    ELSE IF text[p] = "K" THEN [end |-> p + 1, group |-> <<>>]
    ELSE [end |-> 0, group |-> <<>>]

\* pattern.findall(text): group 1 of every match, leftmost first, not overlapping
RECURSIVE QpFindAll(_, _)
QpFindAll(text, p) ==
    IF p > Len(text) THEN <<>>
    ELSE LET m == QpMatchAt(text, p) IN
         IF m.end = 0 THEN QpFindAll(text, p + 1)
         ELSE <<m.group>> \o QpFindAll(text, m.end)

\* scening_list.add(Frame(match)) for a matched string
QpMatch(st, match) ==
    IF ~AllDigits(match) THEN Dropped(st)
    ELSE TryAdd(st, DigitsToInt(match), DigitsToInt(match), <<>>)

RECURSIVE QpLoop(_, _, _)
QpLoop(st, matches, i) ==
    IF i > Len(matches) \/ st.exc # "none" THEN st
    ELSE QpLoop(QpMatch(st, matches[i]), matches, i + 1)

import_qp(text, scenes) == QpLoop(ImportInit(scenes), QpFindAll(text, 1), 1)

\* ------------------------------------------------------------------ import_matroska_timestamps_v2
\* A line of the timestamps file: ok is whether float(line) succeeds, us is
\* the Time it gives, in microseconds (the resolution of Time).
StampLine(ok, us) == [ok |-> ok, us |-> us]

\* timestamps: the Time of every line float() accepts
RECURSIVE Timestamps(_)
Timestamps(lines) ==
    IF lines = <<>> THEN <<>>
    ELSE IF Head(lines).ok THEN <<Head(lines).us>> \o Timestamps(Tail(lines))
    ELSE Timestamps(Tail(lines))

\* deltas[i - 1] = timestamps[i] - timestamps[i - 1], here from index 1
Deltas(ts) == [i \in 1..(Len(ts) - 1) |-> ts[i + 1] - ts[i]]

Abs(x) == IF x < 0 THEN 0 - x ELSE x

\* abs(round(float(a - b), 6)) <= 0.000_001, on microseconds
SameDelta(a, b) == Abs(a - b) <= 1

Pad3(n) ==
    IF n < 10 THEN <<"0", "0">> \o IntToStr(n)
    ELSE IF n < 100 THEN <<"0">> \o IntToStr(n)
    ELSE IntToStr(n)

\* '{:.3f} fps'.format(1 / float(delta)) for a delta of d microseconds, d # 0
FpsLabel(d) ==
    LET a == Abs(d)
        q == 1000000000 \div a
        r == 1000000000 % a
        th == IF 2 * r >= a THEN q + 1 ELSE q
    IN  (IF d < 0 THEN <<"-">> ELSE <<>>)
        \o IntToStr(th \div 1000) \o <<".">> \o Pad3(th % 1000)
        \o <<" ", "f", "p", "s">>

\* scening_list.add(start, end, '{:.3f} fps'.format(1 / float(scene_delta)))
MkvAdd(st, start, end, delta) ==
    IF delta = 0 THEN Raise(st, "ZeroDivisionError")
    ELSE TryAdd(st, start, end, FpsLabel(delta))

\* the loop over range(1, len(deltas)); i is the Python index, so the delta
\* it reads is deltas[i + 1] here.  None is -1 for scene_end.
RECURSIVE MkvLoop(_, _, _)
MkvLoop(run, deltas, i) ==
    IF i >= Len(deltas) \/ run.st.exc # "none" THEN run
    ELSE IF SameDelta(deltas[i + 1], run.scene_delta)
         THEN MkvLoop(run, deltas, i + 1)
    ELSE MkvLoop([st |-> MkvAdd(run.st, run.scene_start, i - 1, run.scene_delta),
                  scene_start |-> i,
                  scene_end |-> -1,
                  scene_delta |-> deltas[i + 1]],
                 deltas, i + 1)

import_matroska_timestamps_v2(lines, scenes) ==
    LET ts == Timestamps(lines)
        deltas == Deltas(ts)
    IN  IF Len(ts) < 2 THEN [ImportInit(scenes) EXCEPT !.warned = TRUE]
        ELSE LET run == MkvLoop([st |-> ImportInit(scenes), scene_start |-> 0,
                                 scene_end |-> -1, scene_delta |-> deltas[1]],
                                deltas, 1)
             IN  IF run.st.exc # "none" THEN run.st
                 ELSE IF run.scene_end = -1
                      THEN MkvAdd(run.st, run.scene_start, Len(ts) - 1, run.scene_delta)
                 ELSE run.st

\* ------------------------------------------------------------------ import_tfm
\* The log is a sequence of entries: the text 'OVR HELP INFORMATION'
\* ("header"), a text "a (b)" of tfm_frame_pattern ("frame"), a text
\* "a,b (txt)" of tfm_group_pattern ("group"), or any other text ("other").
TfmEntry(kind, a, b, txt) == [kind |-> kind, a |-> a, b |-> b, txt |-> txt]

\* import_tfm without the check of start_pos: the whole log is read
TfmFind_Unchecked(log) == 1

\* log.find('OVR HELP INFORMATION'): the first position, 0 for -1
TfmFind(log) ==
    IF \E i \in 1..Len(log) : log[i].kind = "header"
    THEN CHOOSE i \in 1..Len(log) :
            /\ log[i].kind = "header"
            /\ \A j \in 1..(i - 1) : log[j].kind # "header"
    ELSE 0

\* tfm_frames after the first loop: the frames of the section, each with the
\* mic of its first entry (a set holds one element per frame)
TfmFrames(log) == {log[i].a : i \in {j \in 1..Len(log) : log[j].kind = "frame"}}

TfmMic(log, f) ==
    log[CHOOSE i \in 1..Len(log) :
            /\ log[i].kind = "frame" /\ log[i].a = f
            /\ \A j \in 1..(i - 1) : ~(log[j].kind = "frame" /\ log[j].a = f)].b

Combed == <<" ", "c", "o", "m", "b", "e", "d">>

\* the loop over the groups: a rejected group skips the subtraction
RECURSIVE TfmGroups(_, _, _)
TfmGroups(run, log, i) ==
    IF i > Len(log) THEN run
    ELSE IF log[i].kind # "group" THEN TfmGroups(run, log, i + 1)
    ELSE IF ~InRange(log[i].a, log[i].b)
         THEN TfmGroups([run EXCEPT !.st = TryAdd(@, log[i].a, log[i].b, log[i].txt \o Combed)],
                        log, i + 1)
    ELSE TfmGroups([st |-> TryAdd(run.st, log[i].a, log[i].b, log[i].txt \o Combed),
                    frames |-> run.frames \ (log[i].a .. log[i].b)],
                   log, i + 1)

Min(S) == CHOOSE x \in S : \A y \in S : x <= y

\* the loop over the frames left in tfm_frames, in increasing order
RECURSIVE TfmSingles(_, _, _)
TfmSingles(st, log, frames) ==
    IF frames = {} THEN st
    ELSE LET f == Min(frames) IN
         TfmSingles(TryAdd(st, f, f, IntToStr(TfmMic(log, f))), log, frames \ {f})

import_tfm(log, scenes) ==
    LET start_pos == TfmFind(log) IN
    IF start_pos = 0 THEN [ImportInit(scenes) EXCEPT !.warned = TRUE]
    ELSE LET sec == SubSeq(log, start_pos, Len(log))
             run == TfmGroups([st |-> ImportInit(scenes), frames |-> TfmFrames(sec)], sec, 1)
         IN  TfmSingles(run.st, sec, run.frames)

\* ------------------------------------------------------------------ import_lwi
AV_CODEC_ID_FIRST_AUDIO == 65536

IS_KEY == 1

\* re.RegexFlag.MULTILINE, which import_lwi hands to finditer as its second
\* argument: finditer(string, pos) starts the scan at that offset
MULTILINE == 8

IndexLit == <<"I", "n", "d", "e", "x", "=", "0">>

CodecLit == <<"C", "o", "d", "e", "c", "=">>

KeyLit == <<"K", "e", "y", "=">>

StartsWith(text, p, lit) ==
    /\ p + Len(lit) - 1 <= Len(text)
    /\ SubSeq(text, p, p + Len(lit) - 1) = lit

\* the position of the "\n" that ends the line of p, Len(text) + 1 when none
RECURSIVE LineEnd(_, _)
LineEnd(text, p) ==
    IF p > Len(text) \/ text[p] = "\n" THEN p ELSE LineEnd(text, p + 1)

\* .*?lit(\d : the first place from p, before the end e of the line, where
\* lit and a digit stand; 0 when there is none
LitDigit(text, lit, p, e) ==
    LET S == {q \in p..(e - 1) :
                 /\ q + Len(lit) < e
                 /\ StartsWith(text, q, lit)
                 /\ IsDigit(text[q + Len(lit)])}
    IN  IF S = {} THEN 0 ELSE CHOOSE q \in S : \A r \in S : q <= r

\* the pattern Index=0.*?Codec=(\d+).*?\n.*?Key=(\d) tried at position p: the
\* end of the match and its two groups, or end 0 when it does not match at p
LwiMatchAt(text, p) ==
    LET none == [end |-> 0, codec |-> <<>>, key |-> <<>>]
        e1 == LineEnd(text, p)
        c == LitDigit(text, CodecLit, p + Len(IndexLit), e1)
        e2 == LineEnd(text, e1 + 1)
        k == LitDigit(text, KeyLit, e1 + 1, e2)
    IN  IF ~StartsWith(text, p, IndexLit) \/ e1 > Len(text) \/ c = 0 \/ k = 0
        THEN none
        ELSE [end |-> k + Len(KeyLit) + 1,
              codec |-> SubSeq(text, c + Len(CodecLit),
                               DigitRunEnd(text, c + Len(CodecLit)) - 1),
              key |-> <<text[k + Len(KeyLit)]>>]

\* pattern.finditer(text, pos): the matches from pos on, leftmost first
RECURSIVE LwiFindIter(_, _)
LwiFindIter(text, p) ==
    IF p > Len(text) THEN <<>>
    ELSE LET m == LwiMatchAt(text, p) IN
         IF m.end = 0 THEN LwiFindIter(text, p + 1)
         ELSE <<m>> \o LwiFindIter(text, m.end)

\* the loop of import_lwi over the matches, frame counting them
RECURSIVE LwiLoop(_, _, _, _)
LwiLoop(st, matches, i, frame) ==
    IF i > Len(matches) THEN st
    ELSE IF DigitsToInt(matches[i].codec) >= AV_CODEC_ID_FIRST_AUDIO
         THEN LwiLoop(st, matches, i + 1, frame + 1)
    ELSE IF DigitsToInt(matches[i].key) # IS_KEY
         THEN LwiLoop(st, matches, i + 1, frame + 1)
    ELSE LwiLoop(TryAdd(st, frame, frame, <<>>), matches, i + 1, frame + 1)

import_lwi(text, scenes) ==
    LwiLoop(ImportInit(scenes), LwiFindIter(text, MULTILINE + 1), 1, 0)

\* A record of an index file, as lwindex writes it: a line with the stream
\* index and the codec, and a line with the key flag.
LwiRecord(index, codec, key) == [index |-> index, codec |-> codec, key |-> key]

LwiRecordText(r) ==
    <<"I", "n", "d", "e", "x", "=">> \o IntToStr(r.index) \o <<",">>
    \o CodecLit \o IntToStr(r.codec) \o <<"\n">>
    \o KeyLit \o IntToStr(r.key) \o <<"\n">>

RECURSIVE LwiRecordsText(_)
LwiRecordsText(rs) ==
    IF rs = <<>> THEN <<>> ELSE LwiRecordText(Head(rs)) \o LwiRecordsText(Tail(rs))

\* the first line of an index file that has one
LwiHeader ==
    <<"<", "L", "S", "M", "A", "S", "H", "W", "o", "r", "k", "s", ">", "\n">>

\* path.read_text() of an index file
LwiText(f) == (IF f.header THEN LwiHeader ELSE <<>>) \o LwiRecordsText(f.records)

\* ------------------------------------------------------------------ import_matroska_xml_chapters
\* A child element of a ChapterAtom: kind is "missing" when find() gives
\* None, "empty" when its text is None, "text" when it has a text.
Element(kind, text) == [kind |-> kind, text |-> text]

\* An entry of the document: a ChapterAtom with its ChapterTimeStart,
\* ChapterTimeEnd and ChapterDisplay/ChapterString ("atom"), or a place where
\* the document is not well-formed XML ("error").
ChapterAtom(start, end, string) ==
    [kind |-> "atom", start |-> start, end |-> end, string |-> string]

XmlError ==
    [kind |-> "error", start |-> Element("missing", <<>>),
     end |-> Element("missing", <<>>), string |-> Element("missing", <<>>)]

\* \d{2} at position p
TwoDigits(text, p) == p + 1 <= Len(text) /\ IsDigit(text[p]) /\ IsDigit(text[p + 1])

\* timestamp_pattern.match(text): (\d{2}):(\d{2}):(\d{2}(?:\.\d{3})?) at the
\* start of the text, whatever follows
TimestampMatches(text) ==
    /\ TwoDigits(text, 1) /\ Len(text) >= 8 /\ text[3] = ":"
    /\ TwoDigits(text, 4) /\ text[6] = ":"
    /\ TwoDigits(text, 7)

HasMillis(text) ==
    /\ Len(text) >= 12 /\ text[9] = "."
    /\ IsDigit(text[10]) /\ IsDigit(text[11]) /\ IsDigit(text[12])

\* Time(hours=int(match[1]), minutes=int(match[2]), seconds=float(match[3])),
\* in milliseconds
TimestampMs(text) ==
    3600000 * DigitsToInt(SubSeq(text, 1, 2))
    + 60000 * DigitsToInt(SubSeq(text, 4, 5))
    + 1000 * DigitsToInt(SubSeq(text, 7, 8))
    + (IF HasMillis(text) THEN DigitsToInt(SubSeq(text, 10, 12)) ELSE 0)

\* frames per second of the output
Fps == 1

\* Frame(Time): round(seconds * fps), halves to the even frame
FrameOfTime(ms) ==
    LET x == ms * Fps
        q == x \div 1000
        r == x % 1000
    IN  IF r > 500 \/ (r = 500 /\ q % 2 = 1) THEN q + 1 ELSE q

\* the frame of an element that holds a timestamp, None otherwise
ElementFrame(e) ==
    IF e.kind = "text" /\ TimestampMatches(e.text) THEN FrameOfTime(TimestampMs(e.text))
    ELSE None

\* scening_list.add(start, end, label) with an end that may be None
TryAddChapter(st, start, end, string) ==
    TryAdd(st, start, IF end = None THEN start ELSE end, string)

\* the loop body with the skipped atoms counted as dropped
XmlAtom_CountsSkipped(st, atom) ==
    IF ElementFrame(atom.start) = None THEN Dropped(st)
    ELSE TryAddChapter(st, ElementFrame(atom.start), ElementFrame(atom.end),
                       IF atom.string.kind = "text" THEN atom.string.text ELSE <<>>)

\* the body of the loop over root.iter('ChapterAtom')
XmlAtom(st, atom) ==
    IF ElementFrame(atom.start) = None THEN st
    ELSE TryAddChapter(st, ElementFrame(atom.start), ElementFrame(atom.end),
                       IF atom.string.kind = "text" THEN atom.string.text ELSE <<>>)

RECURSIVE XmlLoop(_, _, _)
XmlLoop(st, atoms, i) ==
    IF i > Len(atoms) THEN st ELSE XmlLoop(XmlAtom(st, atoms[i]), atoms, i + 1)

import_matroska_xml_chapters(doc, scenes) ==
    IF \E i \in 1..Len(doc) : doc[i].kind = "error"
    THEN [ImportInit(scenes) EXCEPT !.warned = TRUE]
    ELSE XmlLoop(ImportInit(scenes), doc, 1)

\* ------------------------------------------------------------------ export
\* the replacement fields a template of the model can hold; the exporters
\* pass start, end and label to format
Fields == {"{start}", "{end}", "{label}", "{foo}"}

Known == {"{start}", "{end}", "{label}"}

\* format called with end=scene.start
RECURSIVE Format_StartForEnd(_, _)
Format_StartForEnd(template, scene) ==
    IF template = <<>> THEN [ok |-> TRUE, str |-> <<>>]
    ELSE LET tok == Head(template)
             rest == Format_StartForEnd(Tail(template), scene)
             out == IF tok = "{start}" THEN IntToStr(scene.start)
                    ELSE IF tok = "{end}" THEN IntToStr(scene.start)
                    ELSE IF tok = "{label}" THEN scene.label
                    ELSE <<tok>>
         IN  IF tok \in {"{foo}"}
             THEN [ok |-> FALSE, str |-> <<>>]
             ELSE [ok |-> rest.ok, str |-> IF rest.ok THEN out \o rest.str ELSE <<>>]

\* template.format(start=scene.start, end=scene.end, label=scene.label): the
\* template is a sequence of tokens, a placeholder or one literal character;
\* ok is FALSE when format raises KeyError
RECURSIVE Format(_, _)
Format(template, scene) ==
    IF template = <<>> THEN [ok |-> TRUE, str |-> <<>>]
    ELSE LET tok == Head(template)
             rest == Format(Tail(template), scene)
             out == IF tok = "{start}" THEN IntToStr(scene.start)
                    ELSE IF tok = "{end}" THEN IntToStr(scene.end)
                    ELSE IF tok = "{label}" THEN scene.label
                    ELSE <<tok>>
         IN  IF tok \in Fields \ Known
             THEN [ok |-> FALSE, str |-> <<>>]
             ELSE [ok |-> rest.ok, str |-> IF rest.ok THEN out \o rest.str ELSE <<>>]

\* an exporter that joins the renderings, as joiner.join(...) would
RECURSIVE ExportLoop_Join(_, _, _)
ExportLoop_Join(scenes, template, joiner) ==
    IF scenes = <<>> THEN [ok |-> TRUE, str |-> <<>>]
    ELSE LET one == Format(template, Head(scenes)) IN
         IF ~one.ok THEN [ok |-> FALSE, str |-> <<>>]
         ELSE LET rest == ExportLoop_Join(Tail(scenes), template, joiner) IN
              [ok |-> rest.ok,
               str |-> IF ~rest.ok THEN <<>>
                       ELSE IF Len(scenes) = 1 THEN one.str
                       ELSE one.str \o joiner \o rest.str]

\* the loop of the exporters: export_str += template.format(...) + joiner
RECURSIVE ExportLoop(_, _, _)
ExportLoop(scenes, template, joiner) ==
    IF scenes = <<>> THEN [ok |-> TRUE, str |-> <<>>]
    ELSE LET one == Format(template, Head(scenes)) IN
         IF ~one.ok THEN [ok |-> FALSE, str |-> <<>>]
         ELSE LET rest == ExportLoop(Tail(scenes), template, joiner) IN
              [ok |-> rest.ok,
               str |-> IF rest.ok THEN one.str \o joiner \o rest.str ELSE <<>>]

\* ------------------------------------------------------------------ state
VARIABLES
    lists,               \* current_lists: the ids of the output's SceningLists, in order
    objs,                \* the scenes of every SceningList object created, by id
    current_list_index,  \* items_combobox.currentIndex(), -1 when there is none
    template,            \* export_template_lineedit.text()
    clipboard,           \* main.clipboard text
    message,             \* the last main.show_message
    exported,            \* history: the last call of an exporter
    tasks,               \* the import_file tasks
    current_frame,       \* main.current_frame
    first_frame,         \* self.first_frame, None when absent
    second_frame,        \* self.second_frame, None when absent
    label,               \* label_lineedit.text()
    buttons              \* the checked toggles and the enabled buttons

vars == <<lists, objs, current_list_index, template, clipboard, message, exported, tasks,
          current_frame, first_frame, second_frame, label, buttons>>

\* the pending scene and the frame shown, which the list operations leave alone
pending == <<current_frame, first_frame, second_frame, label>>

Tasks == 1..NumTasks

NoExport ==
    [done |-> FALSE, ok |-> FALSE, scenes |-> <<>>, template |-> <<>>, joiner |-> <<>>]

IdleTask ==
    [pc |-> "idle", func |-> "none", text |-> <<>>, stamps |-> <<>>, entries |-> <<>>,
     list |-> 0, index |-> -1, out_of_range_count |-> 0,
     res |-> ImportInit(<<>>), log |-> {}, from |-> NoExport]

Init ==
    /\ lists = <<>>
    /\ objs = <<>>
    /\ current_list_index = -1
    /\ template = <<>>
    /\ clipboard = <<"o", "l", "d">>
    /\ message = "none"
    /\ exported = NoExport
    /\ tasks = [t \in Tasks |-> IdleTask]
    /\ current_frame = 0
    /\ first_frame = None
    /\ second_frame = None
    /\ label = <<>>
    /\ buttons = [toggle_first_frame_button |-> FALSE,
                  toggle_second_frame_button |-> FALSE,
                  add_to_list_button |-> FALSE,
                  add_single_frame_button |-> TRUE,
                  remove_at_current_frame_button |-> FALSE,
                  remove_last_from_list_button |-> FALSE]

\* current_list: the id of the selected list, 0 for None
current_list ==
    IF current_list_index = -1 THEN 0 ELSE lists[current_list_index + 1]

\* SceningLists.add: the new list and its index
ListsAdd(ls) == Append(ls, Len(objs) + 1)

\* SceningLists.remove(index)
ListsRemove(ls, i) == SubSeq(ls, 1, i) \o SubSeq(ls, i + 2, Len(ls))

\* the combobox's index once row i is removed from n rows
IndexAfterRemove(cur, i, n) ==
    IF cur > i THEN cur - 1
    ELSE IF cur = i THEN (IF i < n - 1 THEN i ELSE n - 2)
    ELSE cur

\* the combobox's index once a row is appended: an empty combobox selects it
IndexAfterAdd(cur) == IF cur = -1 THEN 0 ELSE cur

\* ------------------------------------------------------------------ buttons
\* the list selected by index i of the lists ls: its id, 0 for None
ListAt(ls, i) == IF i = -1 THEN 0 ELSE ls[i + 1]

\* a containment test that looks at the starts of the scenes only
Contains_StartOnly(scenes, frame) ==
    \E i \in 1..Len(scenes) : scenes[i].start = frame

\* SceningList.__contains__: some scene's range [start, end] holds the frame
Contains(scenes, frame) ==
    \E i \in 1..Len(scenes) : scenes[i].start <= frame /\ frame <= scenes[i].end

check_add_to_list_possibility(b, index, first, second) ==
    [b EXCEPT !.add_to_list_button = index # -1 /\ (first # None \/ second # None)]

\* the buttons once check_remove_export_possibility has run for the current
\* list (id 0 for None) and the frame shown
check_remove_export_possibility(b, list, ob, frame) ==
    [b EXCEPT
        !.remove_last_from_list_button = list # 0 /\ Len(ob[list]) > 0,
        !.add_single_frame_button = ~(list # 0 /\ Contains(ob[list], frame)),
        !.remove_at_current_frame_button = list # 0 /\ Contains(ob[list], frame)]

\* items_combobox.valueChanged, raised when the selected list is another one
on_current_list_changed(b, old, new, index, ob) ==
    IF new = old THEN b
    ELSE check_remove_export_possibility(
            check_add_to_list_possibility(b, index, first_frame, second_frame),
            new, ob, current_frame)

\* ------------------------------------------------------------------ list management
\* the lists made by on_add_list_clicked so far
ByHand == Len(objs) - Cardinality({t \in Tasks : tasks[t].list # 0})

on_add_list_clicked ==
    /\ ByHand < MaxLists
    /\ lists' = ListsAdd(lists)
    /\ objs' = Append(objs, <<>>)
    /\ current_list_index' = Len(lists)
    /\ buttons' = on_current_list_changed(buttons, current_list, Len(objs) + 1,
                                          Len(lists), objs')
    /\ UNCHANGED <<template, clipboard, message, exported, tasks, pending>>

on_remove_list_clicked ==
    /\ current_list_index # -1
    /\ lists' = ListsRemove(lists, current_list_index)
    /\ current_list_index' = IndexAfterRemove(current_list_index, current_list_index, Len(lists))
    /\ buttons' = on_current_list_changed(buttons, current_list,
                                          ListAt(lists', current_list_index'),
                                          current_list_index', objs)
    /\ UNCHANGED <<objs, template, clipboard, message, exported, tasks, pending>>

switch_list(index) ==
    /\ 0 <= index /\ index < Len(lists)
    /\ current_list_index' = index
    /\ buttons' = on_current_list_changed(buttons, current_list, ListAt(lists, index),
                                          index, objs)
    /\ UNCHANGED <<lists, objs, template, clipboard, message, exported, tasks, pending>>

\* ------------------------------------------------------------------ scene management
\* the frames the user seeks to, and the scenes the user's lists hold in all
MaxSeek == 1

MaxScenes == 2

RECURSIVE ScenesHeld(_)
ScenesHeld(ob) == IF ob = <<>> THEN 0 ELSE Len(Head(ob)) + ScenesHeld(Tail(ob))

on_current_frame_changed(frame) ==
    /\ frame # current_frame
    /\ current_frame' = frame
    /\ buttons' = check_remove_export_possibility(buttons, current_list, objs, frame)
    /\ UNCHANGED <<lists, objs, current_list_index, template, clipboard, message, exported,
                   tasks, first_frame, second_frame, label>>

\* on_add_single_frame_clicked, with on_add_list_clicked first when there is
\* no current list
on_add_single_frame_clicked ==
    /\ buttons.add_single_frame_button
    /\ ScenesHeld(objs) < MaxScenes
    /\ current_list # 0 \/ ByHand < MaxLists
    /\ LET fresh == current_list = 0
           list == IF fresh THEN Len(objs) + 1 ELSE current_list
           ob1 == IF fresh THEN Append(objs, <<>>) ELSE objs
           b1 == IF fresh
                 THEN check_remove_export_possibility(
                         check_add_to_list_possibility(buttons, Len(lists),
                                                       first_frame, second_frame),
                         list, ob1, current_frame)
                 ELSE buttons
           ob2 == [ob1 EXCEPT ![list] = ListAdd(@, current_frame, current_frame, <<>>)]
       IN
       /\ lists' = IF fresh THEN ListsAdd(lists) ELSE lists
       /\ current_list_index' = IF fresh THEN Len(lists) ELSE current_list_index
       /\ objs' = ob2
       /\ buttons' = check_remove_export_possibility(b1, list, ob2, current_frame)
    /\ UNCHANGED <<template, clipboard, message, exported, tasks, pending>>

\* the click of toggle_first_frame_button: the button flips and the handler
\* is called with its new state
on_first_frame_clicked ==
    LET checked == ~buttons.toggle_first_frame_button
        frame == IF checked THEN current_frame ELSE None
    IN
    /\ first_frame' = frame
    /\ buttons' = check_add_to_list_possibility(
                     [buttons EXCEPT !.toggle_first_frame_button = checked],
                     current_list_index, frame, second_frame)
    /\ UNCHANGED <<lists, objs, current_list_index, template, clipboard, message, exported,
                   tasks, current_frame, second_frame, label>>

on_second_frame_clicked ==
    LET checked == ~buttons.toggle_second_frame_button
        frame == IF checked THEN current_frame ELSE None
    IN
    /\ second_frame' = frame
    /\ buttons' = check_add_to_list_possibility(
                     [buttons EXCEPT !.toggle_second_frame_button = checked],
                     current_list_index, first_frame, frame)
    /\ UNCHANGED <<lists, objs, current_list_index, template, clipboard, message, exported,
                   tasks, current_frame, first_frame, label>>

\* current_list.add(first_frame, second_frame, label): what the call does.
\* An absent end gives a single-frame scene; an end before the start is
\* rejected; the call with an absent start is outside what the list model
\* defines, and either fails or gives the single-frame scene of the end.
AddOutcomes(first, second) ==
    IF first # None /\ second # None
    THEN (IF InRange(first, second) THEN {<<first, second>>} ELSE {<<>>})
    ELSE IF first # None THEN {<<first, first>>}
    ELSE IF second # None THEN {<<>>, <<second, second>>}
    ELSE {<<>>}

\* on_add_to_list_clicked; the handler ends at the call of add when it raises
on_add_to_list_clicked ==
    /\ buttons.add_to_list_button
    /\ current_list # 0
    /\ ScenesHeld(objs) < MaxScenes
    /\ \E added \in AddOutcomes(first_frame, second_frame) :
          IF added = <<>>
          THEN UNCHANGED <<objs, first_frame, second_frame, label, buttons>>
          ELSE LET ob == [objs EXCEPT ![current_list] = ListAdd(@, added[1], added[2], label)]
                   first == IF buttons.toggle_first_frame_button THEN None ELSE first_frame
                   second == IF buttons.toggle_second_frame_button THEN None ELSE second_frame
                   b == [buttons EXCEPT !.toggle_first_frame_button = FALSE,
                                        !.toggle_second_frame_button = FALSE,
                                        !.add_to_list_button = FALSE]
               IN
               /\ objs' = ob
               /\ first_frame' = first
               /\ second_frame' = second
               /\ label' = <<>>
               /\ buttons' = check_remove_export_possibility(b, current_list, ob,
                                                             current_frame)
    /\ UNCHANGED <<lists, current_list_index, template, clipboard, message, exported, tasks,
                   current_frame>>

\* for scene in self.current_list: ... self.current_list.remove(scene): the
\* iteration goes on at the next index of the list as the removal left it
RECURSIVE RemoveLoop(_, _, _)
RemoveLoop(scenes, i, frame) ==
    IF i > Len(scenes) THEN scenes
    ELSE IF scenes[i].start = frame \/ scenes[i].end = frame
         THEN RemoveLoop(SubSeq(scenes, 1, i - 1) \o SubSeq(scenes, i + 1, Len(scenes)),
                         i + 1, frame)
    ELSE RemoveLoop(scenes, i + 1, frame)

on_remove_at_current_frame_clicked ==
    /\ buttons.remove_at_current_frame_button
    /\ current_list # 0
    /\ LET ob == [objs EXCEPT ![current_list] = RemoveLoop(@, 1, current_frame)] IN
       /\ objs' = ob
       /\ buttons' = check_remove_export_possibility(buttons, current_list, ob,
                                                     current_frame)
    /\ UNCHANGED <<lists, current_list_index, template, clipboard, message, exported, tasks,
                   pending>>

on_remove_last_from_list_clicked ==
    /\ buttons.remove_last_from_list_button
    /\ current_list # 0
    /\ Len(objs[current_list]) > 0
    /\ LET ob == [objs EXCEPT ![current_list] = SubSeq(@, 1, Len(@) - 1)] IN
       /\ objs' = ob
       /\ buttons' = check_remove_export_possibility(buttons, current_list, ob,
                                                     current_frame)
    /\ UNCHANGED <<lists, current_list_index, template, clipboard, message, exported, tasks,
                   pending>>

\* on_toggle_single_frame clicks the one of the two buttons that is enabled
on_toggle_single_frame ==
    IF buttons.add_single_frame_button THEN on_add_single_frame_clicked
    ELSE buttons.remove_at_current_frame_button /\ on_remove_at_current_frame_clicked

\* ------------------------------------------------------------------ __setstate__
\* An entry of the state mapping: kind is "missing" when the key is absent,
\* "none" for None, "frame" for a Frame, "str" for a string and "other" for a
\* value of any other type.
Entry(kind, value) == [kind |-> kind, value |-> value]

\* the value self.first_frame (self.second_frame) holds after its try block:
\* KeyError and TypeError are caught before the assignment
LoadFrame(entry, old) ==
    IF entry.kind = "none" THEN None
    ELSE IF entry.kind = "frame" THEN entry.value
    ELSE old

\* try_load(state, name, str, setText): a valid entry is set, an invalid one
\* is logged and the field defaults to empty
try_load(entry, old) == IF entry.kind = "str" THEN entry.value ELSE <<>>

__setstate__(state) ==
    LET first == LoadFrame(state.first_frame, first_frame)
        second == LoadFrame(state.second_frame, second_frame)
        b1 == [buttons EXCEPT
                  !.toggle_first_frame_button = IF first # None THEN TRUE ELSE @,
                  !.toggle_second_frame_button = IF second # None THEN TRUE ELSE @]
        b2 == check_add_to_list_possibility(b1, current_list_index, first, second)
        tpl == try_load(state.scening_export_template, template)
    IN
    /\ first_frame' = first
    /\ second_frame' = second
    /\ label' = try_load(state.label, label)
    /\ template' = tpl
    /\ buttons' = IF tpl = template THEN b2
                  ELSE check_remove_export_possibility(b2, current_list, objs, current_frame)
    /\ UNCHANGED <<lists, objs, current_list_index, clipboard, message, exported, tasks,
                   current_frame>>

\* ------------------------------------------------------------------ import_file
\* on_import_file_clicked: import_file is called for every chosen path, and
\* fire_and_forget hands each call to the executor
Queue(S, func, text, stamps, entries, from) ==
    /\ S # {}
    /\ \A t \in S : tasks[t].pc = "idle"
    /\ tasks' = [t \in Tasks |->
                    IF t \in S
                    THEN [IdleTask EXCEPT !.pc = "queued", !.func = func,
                                          !.text = text[t], !.stamps = stamps[t],
                                          !.entries = entries[t], !.from = from]
                    ELSE tasks[t]]
    /\ UNCHANGED <<lists, objs, current_list_index, template, clipboard, message, exported,
                   pending, buttons>>

Empty(S) == [t \in S |-> <<>>]

on_import_file_clicked_simple(S, files) ==
    /\ S # {} /\ \A t \in S : tasks[t].pc = "idle"
    /\ \E text \in [S -> files] : Queue(S, "simple", text, Empty(S), Empty(S), NoExport)

on_import_file_clicked_qp(S, files) ==
    /\ S # {} /\ \A t \in S : tasks[t].pc = "idle"
    /\ \E text \in [S -> files] : Queue(S, "qp", text, Empty(S), Empty(S), NoExport)

on_import_file_clicked_mkv2(S, files) ==
    /\ S # {} /\ \A t \in S : tasks[t].pc = "idle"
    /\ \E stamps \in [S -> files] : Queue(S, "mkv2", Empty(S), stamps, Empty(S), NoExport)

on_import_file_clicked_tfm(S, files) ==
    /\ S # {} /\ \A t \in S : tasks[t].pc = "idle"
    /\ \E entries \in [S -> files] : Queue(S, "tfm", Empty(S), Empty(S), entries, NoExport)

on_import_file_clicked_lwi(S, files) ==
    /\ S # {} /\ \A t \in S : tasks[t].pc = "idle"
    /\ \E f \in [S -> files] :
          Queue(S, "lwi", [t \in S |-> LwiText(f[t])], Empty(S),
                [t \in S |-> f[t].records], NoExport)

on_import_file_clicked_xml(S, files) ==
    /\ S # {} /\ \A t \in S : tasks[t].pc = "idle"
    /\ \E doc \in [S -> files] : Queue(S, "xml", Empty(S), Empty(S), doc, NoExport)

\* the clipboard's text saved to a file, and that file imported as simple mappings
on_import_file_clicked_clipboard(t) ==
    /\ exported.done /\ exported.ok
    /\ Queue({t}, "simple", [u \in {t} |-> clipboard], Empty({t}), Empty({t}), exported)

\* out_of_range_count = 0; scening_list, scening_list_index = self.current_lists.add(path.stem)
import_file_add(t) ==
    /\ tasks[t].pc = "queued"
    /\ lists' = ListsAdd(lists)
    /\ objs' = Append(objs, <<>>)
    /\ current_list_index' = IndexAfterAdd(current_list_index)
    /\ tasks' = [tasks EXCEPT ![t].pc = "added",
                              ![t].list = Len(objs) + 1,
                              ![t].index = Len(lists),
                              ![t].out_of_range_count = 0]
    /\ buttons' = on_current_list_changed(buttons, current_list,
                                          ListAt(lists', current_list_index'),
                                          current_list_index', objs')
    /\ UNCHANGED <<template, clipboard, message, exported, pending>>

\* import_func(path, scening_list, out_of_range_count)
ImportFunc(task, scenes) ==
    CASE task.func = "simple" -> import_simple(task.text, scenes)
      [] task.func = "qp" -> import_qp(task.text, scenes)
      [] task.func = "mkv2" -> import_matroska_timestamps_v2(task.stamps, scenes)
      [] task.func = "tfm" -> import_tfm(task.entries, scenes)
      [] task.func = "lwi" -> import_lwi(task.text, scenes)
      [] task.func = "xml" -> import_matroska_xml_chapters(task.entries, scenes)

\* the count import_file holds once import_func returned: the importer
\* increments its own parameter, an int, which the caller never sees
CountAfterImport(before, res) == before

import_file_run(t) ==
    /\ tasks[t].pc = "added"
    /\ LET res == ImportFunc(tasks[t], objs[tasks[t].list]) IN
       /\ objs' = [objs EXCEPT ![tasks[t].list] = res.scenes]
       /\ tasks' = [tasks EXCEPT
                       ![t].pc = IF res.exc = "none" THEN "imported" ELSE "raised",
                       ![t].res = res,
                       ![t].out_of_range_count = CountAfterImport(@, res),
                       ![t].log = IF res.warned THEN @ \cup {"importer"} ELSE @]
    /\ UNCHANGED <<lists, current_list_index, template, clipboard, message, exported,
                   pending, buttons>>

\* the rest of import_file: the two warnings, then remove or select the list
import_file_finish(t) ==
    /\ tasks[t].pc = "imported"
    /\ LET task == tasks[t]
           empty == Len(objs[task.list]) = 0
           valid == 0 <= task.index /\ task.index < Len(lists)
           log == (IF task.out_of_range_count > 0 THEN {"out_of_range"} ELSE {})
                  \cup (IF empty THEN {"nothing"} ELSE {})
       IN
       /\ tasks' = [tasks EXCEPT ![t].pc = IF valid THEN "done" ELSE "raised",
                                 ![t].log = @ \cup log]
       /\ lists' = IF empty /\ valid THEN ListsRemove(lists, task.index) ELSE lists
       /\ current_list_index' =
            IF ~valid THEN current_list_index
            ELSE IF empty THEN IndexAfterRemove(current_list_index, task.index, Len(lists))
            ELSE task.index
    /\ buttons' = on_current_list_changed(buttons, current_list,
                                          ListAt(lists', current_list_index'),
                                          current_list_index', objs)
    /\ UNCHANGED <<objs, template, clipboard, message, exported, pending>>

\* ------------------------------------------------------------------ exporters
\* export_template_lineedit edited by the user
set_template(tpl) ==
    /\ template # tpl
    /\ template' = tpl
    /\ buttons' = check_remove_export_possibility(buttons, current_list, objs, current_frame)
    /\ UNCHANGED <<lists, objs, current_list_index, clipboard, message, exported, tasks,
                   pending>>

Export(joiner) ==
    /\ current_list # 0
    /\ LET scenes == objs[current_list]
           out == ExportLoop(scenes, template, joiner)
       IN
       /\ clipboard' = IF out.ok THEN out.str ELSE clipboard
       /\ message' = IF out.ok THEN "exported" ELSE "invalid"
       /\ exported' = [done |-> TRUE, ok |-> out.ok, scenes |-> scenes,
                       template |-> template, joiner |-> joiner]
    /\ UNCHANGED <<lists, objs, current_list_index, template, tasks, pending, buttons>>

export_multiline == Export(<<"\n">>)

export_single_line == Export(<<>>)

\* ------------------------------------------------------------------ inputs
SeqsUpTo(S, n) == UNION {[1..k -> S] : k \in 0..n}

\* lines of a simple mappings file
SimpleLines ==
    { <<"3", " ", "5">>, <<"1", "0", " ", "1", "2">>, <<"7", " ", "7">>,
      <<>>, <<"4">>, <<"x", " ", "1">>, <<"3", "-", "5">>,
      <<"9", " ", "9", "9">>, <<"5", " ", "3">> }

SimpleFiles == {JoinLines(ls) : ls \in SeqsUpTo(SimpleLines, MaxLines)}

\* the files of the specification of the import tasks: one with a scene, one
\* with a scene and a rejected scene, one with rejected scenes only
MainFiles ==
    { JoinLines(<< <<"3", " ", "5">> >>),
      JoinLines(<< <<"3", " ", "5">>, <<"7", " ", "9", "9">> >>),
      JoinLines(<< <<"7", " ", "9", "9">>, <<"9", "9", " ", "7">> >>) }

\* the files the exported lists are imported from
ExportFiles ==
    { JoinLines(<< <<"3", " ", "5">>, <<"1", "0", " ", "1", "2">> >>),
      JoinLines(<< <<"1", "2", " ", "1", "2">>, <<"0", " ", "9">>, <<"3", " ", "5">> >>) }

Templates ==
    { <<"{start}", "-", "{end}", "\n">>,
      <<"{start}", " ", "{end}">>,
      <<"{start}", " ", "{end}", "\n">>,
      <<"{label}", ":", "{start}", ",">>,
      <<"{foo}">> }

\* lines of a QP file
QpLines ==
    { <<"3", " ", "I">>, <<"1", "0", " ", "I">>, <<"7", " ", "K">>,
      <<"9", "9", " ", "I">>, <<"5", " ", "P">> }

QpFiles == {JoinLines(ls) : ls \in SeqsUpTo(QpLines, MaxLines)}

\* lines of a timestamps file
MaxStamps == 5

StampValues == {0, 100000, 200000, 200001, 350000, 500000}

StampLines == {StampLine(TRUE, v) : v \in StampValues} \cup {StampLine(FALSE, 0)}

MkvFiles == SeqsUpTo(StampLines, MaxStamps)

\* entries of a TFM log
MaxEntries == 3

Pct == <<"5", "0", ".", "0", "%">>

TfmEntries ==
    { TfmEntry("header", 0, 0, <<>>), TfmEntry("other", 0, 0, <<>>),
      TfmEntry("frame", 5, 30, <<>>), TfmEntry("frame", 8, 41, <<>>),
      TfmEntry("frame", 99, 7, <<>>),
      TfmEntry("group", 4, 6, Pct), TfmEntry("group", 4, 99, Pct) }

TfmFiles == SeqsUpTo(TfmEntries, MaxEntries)

\* records of an index file: video key and non-key frames of stream 0, an
\* audio-codec record of stream 0, a record of stream 1
MaxRecords == 3

LwiRecords ==
    { LwiRecord(0, 27, 1), LwiRecord(0, 27, 0), LwiRecord(0, 86018, 1),
      LwiRecord(1, 27, 1) }

LwiFiles ==
    {[header |-> h, records |-> rs] : h \in BOOLEAN, rs \in SeqsUpTo(LwiRecords, MaxRecords)}

\* ------------------------------------------------------------------ specifications
TaskStep ==
    \E t \in Tasks : import_file_add(t) \/ import_file_run(t) \/ import_file_finish(t)

\* the toolbar with its import tasks running beside the user's list operations
Next ==
    \/ on_add_list_clicked
    \/ on_remove_list_clicked
    \/ \E i \in 0..8 : switch_list(i)
    \/ \E S \in SUBSET Tasks : on_import_file_clicked_simple(S, MainFiles)
    \/ TaskStep

Spec == Init /\ [][Next]_vars

\* the import tasks of the chosen files alone, in every interleaving
NextImport ==
    \/ \E S \in SUBSET Tasks : on_import_file_clicked_simple(S, MainFiles)
    \/ TaskStep

SpecImport == Init /\ [][NextImport]_vars

\* no import task in progress
Quiet == \A t \in Tasks : tasks[t].pc \in {"idle", "done", "raised"}

\* lists imported and made by hand, then exported, and the export imported again
import_one_simple(files) == Quiet /\ on_import_file_clicked_simple({1}, files)

import_clipboard == Quiet /\ on_import_file_clicked_clipboard(2)

NextExport ==
    \/ on_add_list_clicked
    \/ import_one_simple(ExportFiles)
    \/ import_clipboard
    \/ TaskStep
    \/ \E tpl \in Templates : set_template(tpl)
    \/ export_multiline
    \/ export_single_line

SpecExport == Init /\ [][NextExport]_vars

\* one importer, run on every file of its set
NextSimple == on_import_file_clicked_simple({1}, SimpleFiles) \/ TaskStep

SpecSimple == Init /\ [][NextSimple]_vars

NextQp == on_import_file_clicked_qp({1}, QpFiles) \/ TaskStep

SpecQp == Init /\ [][NextQp]_vars

NextMkv == on_import_file_clicked_mkv2({1}, MkvFiles) \/ TaskStep

SpecMkv == Init /\ [][NextMkv]_vars

NextTfm == on_import_file_clicked_tfm({1}, TfmFiles) \/ TaskStep

SpecTfm == Init /\ [][NextTfm]_vars

NextLwi == on_import_file_clicked_lwi({1}, LwiFiles) \/ TaskStep

SpecLwi == Init /\ [][NextLwi]_vars

\* the toolbar used by hand: seeking, the lists, the scenes of the current list
NextScening ==
    \/ \E frame \in 0..MaxSeek : on_current_frame_changed(frame)
    \/ on_add_list_clicked
    \/ on_remove_list_clicked
    \/ \E i \in 0..8 : switch_list(i)
    \/ on_add_single_frame_clicked
    \/ on_first_frame_clicked
    \/ on_second_frame_clicked
    \/ on_add_to_list_clicked
    \/ on_remove_at_current_frame_clicked
    \/ on_remove_last_from_list_clicked
    \/ on_toggle_single_frame

SpecScening == Init /\ [][NextScening]_vars

\* entries of a chapters document
MaxAtoms == 2

Stamp3 == <<"0", "0", ":", "0", "0", ":", "0", "3">>

Stamp5 == <<"0", "0", ":", "0", "0", ":", "0", "5">>

Stamp7 == <<"0", "0", ":", "0", "0", ":", "0", "7", ".", "6", "0", "0", "0", "0", "0">>

Stamp60 == <<"0", "0", ":", "0", "1", ":", "0", "0", ".", "0", "0", "0">>

Missing == Element("missing", <<>>)

XmlEntries ==
    { ChapterAtom(Element("text", Stamp3), Element("text", Stamp5), Element("text", <<"a">>)),
      ChapterAtom(Element("text", Stamp7), Missing, Missing),
      ChapterAtom(Element("text", Stamp5), Element("text", Stamp3), Missing),
      ChapterAtom(Element("text", Stamp60), Element("text", <<"x">>), Element("empty", <<>>)),
      ChapterAtom(Missing, Element("text", Stamp5), Element("text", <<"a">>)),
      ChapterAtom(Element("empty", <<>>), Missing, Missing),
      ChapterAtom(Element("text", <<"3", ":", "0", "5">>), Missing, Missing),
      XmlError }

XmlFiles == SeqsUpTo(XmlEntries, MaxAtoms)

NextXml == on_import_file_clicked_xml({1}, XmlFiles) \/ TaskStep

SpecXml == Init /\ [][NextXml]_vars

\* the states handed to __setstate__
FrameEntries ==
    {Entry("missing", 0), Entry("none", 0), Entry("other", 0)}
        \cup {Entry("frame", f) : f \in 0..MaxSeek}

LabelEntries == {Entry("missing", <<>>), Entry("other", <<>>), Entry("str", <<"a">>)}

TemplateEntries ==
    {Entry("missing", <<>>), Entry("other", <<>>), Entry("str", <<"{start}", " ", "{end}">>)}

States ==
    [first_frame : FrameEntries, second_frame : FrameEntries,
     label : LabelEntries, scening_export_template : TemplateEntries]

\* the pending scene set by hand and restored from a saved state
NextState ==
    \/ \E frame \in 0..MaxSeek : on_current_frame_changed(frame)
    \/ on_add_list_clicked
    \/ on_first_frame_clicked
    \/ on_second_frame_clicked
    \/ on_add_to_list_clicked
    \/ \E state \in States : __setstate__(state)

SpecState == Init /\ [][NextState]_vars

\* ------------------------------------------------------------------ claims
\* the task has run its importer (it returned or raised)
Ran(t) == tasks[t].pc \in {"imported", "done", "raised"}

\* the add calls of an importer that range validation rejected
Rejected(res) ==
    Cardinality({i \in 1..Len(res.attempts) :
                    ~InRange(res.attempts[i].start, res.attempts[i].end)})

Pairs(scenes) == [i \in 1..Len(scenes) |-> <<scenes[i].start, scenes[i].end>>]

\* C1: when import_file has finished, it has logged the out-of-range warning
\* if and only if the importer had k >= 1 scenes rejected by range
\* validation, and its own count is k.
C1_DroppedCountReachesCaller ==
    \A t \in Tasks :
        tasks[t].pc = "done" =>
            /\ tasks[t].out_of_range_count = Rejected(tasks[t].res)
            /\ ("out_of_range" \in tasks[t].log) <=> (Rejected(tasks[t].res) >= 1)

\* a template that references an unrecognized placeholder
HasUnknown(tpl) == \E i \in 1..Len(tpl) : tpl[i] \in Fields \ Known

\* a step of export_single_line or export_multiline
ExportStep == exported' # exported \/ clipboard' # clipboard \/ message' # message

\* C2: every call of an exporter with a template that references an
\* unrecognized placeholder leaves the clipboard as it was and shows no
\* 'exported' message, whatever the current list, an empty one included.
C2_UnknownPlaceholderKeepsClipboard ==
    [][(HasUnknown(template) /\ ExportStep) =>
            (clipboard' = clipboard /\ message' # "exported")]_vars

DashTemplate == <<"{start}", "-", "{end}", "\n">>

SpaceTemplate == <<"{start}", " ", "{end}">>

SpaceLineTemplate == <<"{start}", " ", "{end}", "\n">>

\* the task imported the text an exporter made with this template and joiner
ImportedExport(t, tpl, joiner) ==
    /\ Ran(t)
    /\ tasks[t].from.done
    /\ tasks[t].from.template = tpl
    /\ tasks[t].from.joiner = joiner

\* C3 as stated: a list exported with the template "{start}-{end}\n" and
\* imported by import_simple gives the original (start, end) pairs in order.
C3_RoundTripDash ==
    \A t \in Tasks :
        (Ran(t) /\ tasks[t].from.done /\ tasks[t].from.template = DashTemplate) =>
            Pairs(tasks[t].res.scenes) = Pairs(tasks[t].from.scenes)

\* C3 amended: a list exported by export_multiline with the template
\* "{start} {end}", or by export_single_line with "{start} {end}\n", and
\* imported by import_simple gives the original (start, end) pairs in order,
\* and the importer neither raises nor drops a line.
C3_RoundTripSpace ==
    \A t \in Tasks :
        (\/ ImportedExport(t, SpaceTemplate, <<"\n">>)
         \/ ImportedExport(t, SpaceLineTemplate, <<>>)) =>
            /\ Pairs(tasks[t].res.scenes) = Pairs(tasks[t].from.scenes)
            /\ tasks[t].res.exc = "none"
            /\ tasks[t].res.count = 0

C3_Witness ==
    \E t \in Tasks :
        /\ ImportedExport(t, SpaceTemplate, <<"\n">>)
        /\ tasks[t].pc = "done"
        /\ Len(tasks[t].from.scenes) >= 3
        /\ \E i \in 1..Len(tasks[t].from.scenes) : tasks[t].from.scenes[i].start >= 10

\* a line "start end" of two in-range frame numbers
WellFormed(line) ==
    LET toks == Split(line) IN
    /\ Len(toks) = 2
    /\ AllDigits(toks[1]) /\ AllDigits(toks[2])
    /\ InRange(DigitsToInt(toks[1]), DigitsToInt(toks[2]))

\* C4: import_simple never raises, and every well-formed in-range line of
\* the file yields its scene, whatever lines precede it.
C4_MalformedLinesAreDropped ==
    \A t \in Tasks :
        (Ran(t) /\ tasks[t].func = "simple") =>
            /\ tasks[t].res.exc = "none"
            /\ \A line \in {SplitLines(tasks[t].text)[i] :
                                i \in 1..Len(SplitLines(tasks[t].text))} :
                    WellFormed(line) =>
                        HasScene(tasks[t].res.scenes,
                                 DigitsToInt(Split(line)[1]), DigitsToInt(Split(line)[2]))

\* the lists without the list of this id
Without(ls, id) == SelectSeq(ls, LAMBDA x : x # id)

InLists(ls, id) == \E i \in 1..Len(ls) : ls[i] = id

\* C5: the step that finishes import_file, taken while the new list is among
\* the output's lists, removes exactly the new list when the importer added
\* no scene to it, and otherwise leaves the lists as they are, with the new
\* list present and selected.
C5_EmptyListRemovedElseSelected ==
    [][\A t \in Tasks :
          (/\ tasks[t].pc = "imported" /\ tasks'[t].pc = "done"
           /\ InLists(lists, tasks[t].list)) =>
              IF Len(objs[tasks[t].list]) = 0
              THEN lists' = Without(lists, tasks[t].list)
              ELSE /\ lists' = lists
                   /\ InLists(lists', tasks[t].list)
                   /\ current_list_index' # -1
                   /\ lists'[current_list_index' + 1] = tasks[t].list]_vars

Rendering(tpl, scene) == Format(tpl, scene).str

RECURSIVE JoinBetween(_, _, _)
JoinBetween(scenes, tpl, joiner) ==
    IF scenes = <<>> THEN <<>>
    ELSE IF Len(scenes) = 1 THEN Rendering(tpl, scenes[1])
    ELSE Rendering(tpl, scenes[1]) \o joiner \o JoinBetween(Tail(scenes), tpl, joiner)

RECURSIVE JoinAfter(_, _, _)
JoinAfter(scenes, tpl, joiner) ==
    IF scenes = <<>> THEN <<>>
    ELSE JoinAfter(SubSeq(scenes, 1, Len(scenes) - 1), tpl, joiner)
         \o Rendering(tpl, scenes[Len(scenes)]) \o joiner

Newlines(text) == Cardinality({i \in 1..Len(text) : text[i] = "\n"})

\* C6 as stated: the exported text is the renderings of the scenes, in list
\* order, with the joiner between consecutive renderings.
C6_JoinerBetween ==
    (exported.done /\ exported.ok) =>
        clipboard = JoinBetween(exported.scenes, exported.template, exported.joiner)

\* C6 amended: the exported text is the renderings of the scenes, in list
\* order, each followed by the joiner ("" for export_single_line, "\n" for
\* export_multiline), so n scenes exported multi-line give n joiner newlines
\* besides those of the template.
C6_JoinerAfterEach ==
    (exported.done /\ exported.ok) =>
        /\ exported.joiner \in {<<>>, <<"\n">>}
        /\ clipboard = JoinAfter(exported.scenes, exported.template, exported.joiner)
        /\ Newlines(clipboard) =
              Len(exported.scenes) * (Len(exported.joiner) + Newlines(exported.template))

C6_Witness ==
    /\ exported.done /\ exported.ok
    /\ exported.joiner = <<"\n">>
    /\ Len(exported.scenes) >= 2
    /\ message = "exported"

\* the run a delta belongs to starts at RunStart: a delta opens a new run when
\* it differs from the delta its run started with
RECURSIVE RunStart(_, _)
RunStart(deltas, i) ==
    IF i = 1 THEN 1
    ELSE IF SameDelta(deltas[i], deltas[RunStart(deltas, i - 1)])
         THEN RunStart(deltas, i - 1)
    ELSE i

RunStarts(deltas) == {RunStart(deltas, i) : i \in 1..Len(deltas)}

\* C7: for a timestamps file of at least two timestamps, the importer calls
\* add once per maximal run of constant delta, with the fps of that run as
\* the label.
C7_OneScenePerRun ==
    \A t \in Tasks :
        (Ran(t) /\ tasks[t].func = "mkv2" /\ Len(Timestamps(tasks[t].stamps)) >= 2) =>
            LET deltas == Deltas(Timestamps(tasks[t].stamps))
                att == tasks[t].res.attempts
            IN  /\ Len(att) = Cardinality(RunStarts(deltas))
                /\ \A i \in 1..Len(att) :
                      /\ att[i].start + 1 \in RunStarts(deltas)
                      /\ deltas[att[i].start + 1] # 0
                      /\ att[i].label = FpsLabel(deltas[att[i].start + 1])

NoHeader(log) == \A i \in 1..Len(log) : log[i].kind # "header"

Section(log) == SubSeq(log, TfmFind(log), Len(log))

InSomeGroup(sec, f) ==
    \E i \in 1..Len(sec) : sec[i].kind = "group" /\ sec[i].a <= f /\ f <= sec[i].b

\* C9: for every combed frame f of the section, a single-frame scene at f
\* labelled with its mic value is attempted if and only if f lies in none of
\* the section's groups, rejected groups included.
C9_SinglesOutsideGroups ==
    \A t \in Tasks :
        (Ran(t) /\ tasks[t].func = "tfm" /\ ~NoHeader(tasks[t].entries)) =>
            LET sec == Section(tasks[t].entries)
                att == tasks[t].res.attempts
            IN  \A f \in TfmFrames(sec) :
                    (\E i \in 1..Len(att) : att[i] = Scene(f, f, IntToStr(TfmMic(sec, f))))
                        <=> ~InSomeGroup(sec, f)

\* a line '<frame> I' or '<frame> K'
IsQpLine(line) ==
    LET toks == Split(line) IN
    /\ Len(toks) = 2 /\ AllDigits(toks[1]) /\ toks[2] \in {<<"I">>, <<"K">>}

QpFrame(line) == DigitsToInt(Split(line)[1])

\* C10: import_qp gives one single-frame scene at <frame> for every in-range
\* line '<frame> I' and '<frame> K' and no other scene, and counts no such
\* line as dropped.
C10_IAndKLinesImported ==
    \A t \in Tasks :
        (Ran(t) /\ tasks[t].func = "qp") =>
            LET lines == SplitLines(tasks[t].text)
                good == {i \in 1..Len(lines) :
                            IsQpLine(lines[i]) /\ QpFrame(lines[i]) <= MaxFrame}
                bad == {i \in 1..Len(lines) :
                            IsQpLine(lines[i]) /\ QpFrame(lines[i]) > MaxFrame}
                scenes == tasks[t].res.scenes
            IN  /\ tasks[t].res.exc = "none"
                /\ \A i \in good :
                      HasScene(scenes, QpFrame(lines[i]), QpFrame(lines[i]))
                /\ \A j \in 1..Len(scenes) :
                      /\ scenes[j].start = scenes[j].end
                      /\ \E i \in good : QpFrame(lines[i]) = scenes[j].start
                /\ tasks[t].res.count = Cardinality(bad)

\* the Index=0 records of a file, in order
Index0(records) == SelectSeq(records, LAMBDA r : r.index = 0)

\* the frames of the scenes a scan of every Index=0 record emits: the
\* position, counted from 0, of each video record with Key=1
RECURSIVE KeyFrames(_, _)
KeyFrames(recs, n) ==
    IF n = 0 THEN <<>>
    ELSE KeyFrames(recs, n - 1)
         \o (IF recs[n].codec < AV_CODEC_ID_FIRST_AUDIO /\ recs[n].key = IS_KEY
             THEN <<n - 1>> ELSE <<>>)

\* C11: import_lwi scans every Index=0 record of the file, wherever the file
\* starts: it calls add for exactly the Index=0 records with Codec < 0x10000
\* and Key = 1, in order, each at the frame that is the number of Index=0
\* records before it.
C11_EveryIndex0RecordScanned ==
    \A t \in Tasks :
        (Ran(t) /\ tasks[t].func = "lwi") =>
            LET recs == Index0(tasks[t].entries)
                frames == KeyFrames(recs, Len(recs))
            IN  /\ tasks[t].res.exc = "none"
                /\ tasks[t].res.attempts =
                      [i \in 1..Len(frames) |-> Scene(frames[i], frames[i], <<>>)]

\* C12: a call of __setstate__ with a state whose first_frame (second_frame)
\* is missing or of a wrong type leaves first_frame (second_frame) absent,
\* whatever it was before, and restores the other frame, the label and the
\* export template from their valid entries.
C12_InvalidFrameDefaultsToAbsent ==
    [][\A state \in States :
          __setstate__(state) =>
              /\ state.first_frame.kind \in {"missing", "other"} =>
                    /\ first_frame' = None
                    /\ state.second_frame.kind = "frame" =>
                          second_frame' = state.second_frame.value
              /\ state.second_frame.kind \in {"missing", "other"} =>
                    /\ second_frame' = None
                    /\ state.first_frame.kind = "frame" =>
                          first_frame' = state.first_frame.value
              /\ state.label.kind = "str" => label' = state.label.value
              /\ state.scening_export_template.kind = "str" =>
                    template' = state.scening_export_template.value]_vars

\* a document that is well-formed XML
Parsed(doc) == \A i \in 1..Len(doc) : doc[i].kind = "atom"

\* a ChapterTimeStart that is present and begins with HH:MM:SS
Startable(atom) ==
    /\ atom.start.kind = "text"
    /\ Len(atom.start.text) >= 8
    /\ \A i \in {1, 2, 4, 5, 7, 8} : IsDigit(atom.start.text[i])
    /\ atom.start.text[3] = ":" /\ atom.start.text[6] = ":"

\* C13: on a parsed document, import_matroska_xml_chapters calls add once
\* for every ChapterAtom with a parseable ChapterTimeStart, in document
\* order, and skips every other ChapterAtom without counting it as dropped
\* and without stopping: the dropped count is the number of rejected calls.
C13_UnparseableStartSkipped ==
    \A t \in Tasks :
        (Ran(t) /\ tasks[t].func = "xml" /\ Parsed(tasks[t].entries)) =>
            LET atoms == SelectSeq(tasks[t].entries, Startable)
                att == tasks[t].res.attempts
            IN  /\ tasks[t].res.exc = "none"
                /\ Len(att) = Len(atoms)
                /\ \A i \in 1..Len(att) :
                      att[i].start = FrameOfTime(TimestampMs(atoms[i].start.text))
                /\ tasks[t].res.count = Rejected(tasks[t].res)

\* a skipped atom stands before an atom that is added and one that is rejected
C13_Witness ==
    \E t \in Tasks :
        /\ tasks[t].pc = "done" /\ tasks[t].func = "xml" /\ Parsed(tasks[t].entries)
        /\ Len(tasks[t].entries) >= 2
        /\ ~Startable(tasks[t].entries[1])
        /\ Startable(tasks[t].entries[2])
        /\ Len(tasks[t].res.scenes) = 1

\* C14: in every interleaving of the import tasks, the step that ends a
\* task's import_file finds the task's index still denoting the list the
\* task created; it removes exactly that list when the import gave it no
\* scene, and it removes no list otherwise, so no list with scenes is removed.
C14_TaskTouchesOnlyItsList ==
    [][\A t \in Tasks :
          (tasks[t].pc = "imported" /\ tasks'[t].pc # "imported") =>
              /\ tasks[t].index < Len(lists)
              /\ lists[tasks[t].index + 1] = tasks[t].list
              /\ tasks'[t].pc = "done"
              /\ lists' = IF Len(objs[tasks[t].list]) = 0
                          THEN Without(lists, tasks[t].list)
                          ELSE lists
              /\ \A i \in 1..Len(lists) :
                    Len(objs[lists[i]]) > 0 => InLists(lists', lists[i])]_vars

\* C15: whenever the Add to List button is enabled, first_frame is set, so
\* on_add_to_list_clicked never calls add with an absent start.
C15_AddToListHasStart ==
    buttons.add_to_list_button => first_frame # None

\* the scenes of a list, in order, without those that start or end at a frame
AwayFrom(scenes, frame) ==
    SelectSeq(scenes, LAMBDA sc : sc.start # frame /\ sc.end # frame)

\* C16: a step of on_remove_at_current_frame_clicked leaves in the current
\* list exactly the scenes that neither start nor end at the current frame,
\* in their order.
C16_RemovesEveryBoundaryScene ==
    [][on_remove_at_current_frame_clicked =>
          objs'[current_list] = AwayFrom(objs[current_list], current_frame)]_vars

C18_ToggleCheckedIffFrameSet ==
    /\ buttons.toggle_first_frame_button <=> (first_frame # None)
    /\ buttons.toggle_second_frame_button <=> (second_frame # None)

\* C19: for a timestamps file of N >= 2 timestamps, the scenes the importer
\* calls add for partition the frames 0..N-1: the first starts at 0, the
\* last ends at N-1, each has start <= end and each next one starts at the
\* end of the one before plus 1; with fewer than two timestamps add is not
\* called.
C19_ScenesPartitionFrames ==
    \A t \in Tasks :
        (Ran(t) /\ tasks[t].func = "mkv2") =>
            LET n == Len(Timestamps(tasks[t].stamps))
                att == tasks[t].res.attempts
            IN  IF n < 2 THEN att = <<>>
                ELSE /\ att # <<>>
                     /\ att[1].start = 0
                     /\ att[Len(att)].end = n - 1
                     /\ \A i \in 1..Len(att) : att[i].start <= att[i].end
                     /\ \A i \in 1..(Len(att) - 1) : att[i + 1].start = att[i].end + 1

====
